---- MODULE Spec2Model ----
(***************************************************************************)
(* A model of qlib's finite vectorized-execution layer:                    *)
(*   - DataQueue        (qlib/rl/utils/data_queue.py)                      *)
(*   - FiniteVectorEnv  (qlib/rl/utils/finite_env.py)                      *)
(* Every statement of the source that reads or writes shared state (the    *)
(* multiprocessing queue, the shared `_done` value) is one atomic step.    *)
(***************************************************************************)
EXTENDS Integers, Sequences, FiniteSets, TLC

\* ------------------------------------------------------------------ bounds
MaxDatasetLen == 2
MaxRepeat == 2
MaxQueueSize == 2
NumConsumers == 2
MaxCleanupCalls == 2
MaxActivateErrors == 2
MaxEnvNum == 2
MaxTreeSize == 3
MaxOrderLots == 2
MaxTicks == 3
MaxVolLimit == 1
MaxSteps == 3
NumLoggers == 2

\* ------------------------------------------------------- program constants
\* cleanup(): `for repeat in range(500)`
CleanupRetries == 500

VARIABLES
    \* ---- DataQueue
    dataset_len,      \* len(self.dataset)
    repeat,           \* self.repeat (-1: iterate forever)
    queue_maxsize,    \* maxsize of self._queue
    activated,        \* self._activated
    queue,            \* self._queue, head first
    done_value,       \* self._done.value
    producer,         \* the producer thread: [pc, rep, idx]
    consumer,         \* consumer -> its position around get()
    cleaner,          \* the caller of cleanup(): [pc, repeat, warnings],
                      \* warnings counting the RuntimeWarnings of the call
    \* ---- DataQueue history (not program state)
    enqueued,         \* every item put by the producer, in order
    delivered,        \* every item returned by a get(), in order
    discarded,        \* every item removed by cleanup(), in order
    cleanup_calls,    \* number of cleanup() calls started
    producers_started,\* number of producer threads started by activate()
    activate_errors,  \* number of activate() calls that raised ValueError
    cleanup_midput,   \* the last cleanup() call found items buffered and the
                      \* producer between its flag check and its put
    \* ---- FiniteVectorEnv
    env_num,          \* self.env_num
    alive_env_ids,    \* self._alive_env_ids
    zombie,           \* self._zombie
    collector_guarded,\* self._collector_guarded
    default_obs,      \* self._default_obs
    default_info,     \* self._default_info
    default_rew,      \* self._default_rew
    \* ---- the caller of the FiniteVectorEnv and history
    guard_pc,         \* "outside" or "body" of a collector_guard() scope
    raised,           \* the exception propagating from the last call
    call,             \* the reset/step call just made: arguments and outcome
    retired,          \* every slot ever removed from the alive set
    exhausted,        \* a reset/step call has raised StopIteration
    all_done_calls,   \* on_env_all_done() calls of the logger, this scope
    last_exit,        \* how the last collector_guard() scope ended
    scope_exited,     \* some collector_guard() scope has exited
    \* ---- the workers behind the FiniteVectorEnv (end-to-end)
    driver,           \* the collect loop: [pc, id]
    worker            \* slot -> [seed, done]: the episode it is running
    ,episodes         \* every [slot, seed] an episode was started with
    ,unseeded_step    \* a worker was stepped while it had no seed
    \* ---- fill_invalid / isinvalid
    ,sample           \* the value given to fill_invalid and isinvalid
    ,filled           \* what fill_invalid(sample) returned or raised
    ,verdict          \* what isinvalid returned: [of_sample, of_filled]
    \* ---- SingleAssetOrderExecution
    ,simulator        \* the simulator object's fields
    ,sim_step         \* the last step() call: its argument and outcome
    \* ---- OnPolicyTrainer
    ,trainer          \* one train() or evaluate() call: position and locals

qconf == <<dataset_len, repeat, queue_maxsize>>
qlife == <<producers_started, activate_errors, cleanup_midput>>
qhist == <<enqueued, delivered, discarded, cleanup_calls, qlife>>
qvars == <<qconf, activated, queue, done_value, producer, consumer, cleaner,
           qhist>>
edefaults == <<default_obs, default_info, default_rew>>
evars == <<env_num, alive_env_ids, zombie, collector_guarded, edefaults,
           guard_pc, raised, call, retired, exhausted, all_done_calls,
           last_exit, scope_exited>>
wvars == <<driver, worker, episodes, unseeded_step>>
cvars == <<sample, filled, verdict>>
svars == <<simulator, sim_step>>
tvars == <<trainer>>
ovars == <<cvars, svars, tvars>>

vars == <<qvars, evars, wvars, ovars>>

Consumers == 1..NumConsumers
\* The consumers of the life-cycle specification.
Pullers == {1}
NoItem == <<>>

\* ------------------------------------------------------------- DataQueue

\* Mutant: repeat = -1 is not replaced by 10 ** 18 and gives an empty range.
InRepeatRange_finite(rep) == rep < repeat

\* `for _rep in range(repeat)` with repeat = 10 ** 18 when self.repeat == -1:
\* the pass counter never reaches 10 ** 18, so that range is unbounded here.
InRepeatRange(rep) == repeat = -1 \/ rep < repeat

\* Mutant: mark_as_done() follows the first pass.
NextIteration_one_pass(rep, idx) ==
    IF idx + 1 < dataset_len
    THEN [pc |-> "check", rep |-> rep, idx |-> idx + 1]
    ELSE [pc |-> "mark", rep |-> rep + 1, idx |-> 0]

\* The producer's position after the loops have advanced past item (rep, idx).
NextIteration(rep, idx) ==
    IF idx + 1 < dataset_len
    THEN [pc |-> "check", rep |-> rep, idx |-> idx + 1]
    ELSE IF InRepeatRange(rep + 1)
         THEN [pc |-> "check", rep |-> rep + 1, idx |-> 0]
         ELSE [pc |-> "mark", rep |-> rep + 1, idx |-> 0]

\* The producer's position when the thread starts: an empty dataset makes
\* every pass empty, so the loops fall through to mark_as_done().
FirstIteration ==
    IF dataset_len > 0 /\ InRepeatRange(0)
    THEN [pc |-> "check", rep |-> 0, idx |-> 0]
    ELSE [pc |-> "mark", rep |-> 0, idx |-> 0]

\* __init__, for the consumers in `ids`
QueueInit(ids) ==
    /\ dataset_len \in 0..MaxDatasetLen
    /\ repeat \in {-1} \cup (1..MaxRepeat)
    /\ (repeat = -1 => dataset_len > 0)
    /\ queue_maxsize \in 1..MaxQueueSize
    /\ activated = FALSE
    /\ queue = <<>>
    /\ done_value = 0
    /\ producer = [pc |-> "unstarted", rep |-> 0, idx |-> 0]
    /\ consumer = [c \in ids |-> "out"]
    /\ cleaner = [pc |-> "idle", repeat |-> 0, warnings |-> 0]
    /\ enqueued = <<>>
    /\ delivered = <<>>
    /\ discarded = <<>>
    /\ cleanup_calls = 0
    /\ producers_started = 0
    /\ activate_errors = 0
    /\ cleanup_midput = FALSE

\* Mutant: the check of self._activated is missing.
activate_refused_never(flag) == FALSE

\* activate(), `if self._activated: raise ValueError(...)`
activate_refused(flag) == flag

\* activate() on a queue not yet activated: starts the producer thread.
Activate ==
    /\ ~activate_refused(activated)
    /\ activated' = TRUE
    /\ producer' = FirstIteration
    /\ producers_started' = producers_started + 1
    /\ UNCHANGED <<evars, wvars, ovars>>
    /\ UNCHANGED <<qconf, queue, done_value, consumer, cleaner, enqueued,
                   delivered, discarded, cleanup_calls, activate_errors,
                   cleanup_midput>>

\* activate() on a queue already activated: raises ValueError before anything
\* else is done.
ActivateTwice ==
    /\ activate_refused(activated)
    /\ activate_errors < MaxActivateErrors
    /\ activate_errors' = activate_errors + 1
    /\ UNCHANGED <<evars, wvars, ovars>>
    /\ UNCHANGED <<qconf, activated, queue, done_value, producer, consumer,
                   cleaner, enqueued, delivered, discarded, cleanup_calls,
                   producers_started, cleanup_midput>>

\* Mutant: the producer stops on the flag of a single cleanup() only.
producer_stops_once(done) == done = 1

\* Mutant: the producer does not look at the flag.
producer_stops_never(done) == FALSE

\* _producer, `if self._done.value`
producer_stops(done) == done # 0

\* _producer, `if self._done.value: return`
ProducerCheck ==
    /\ producer.pc = "check"
    /\ producer' = IF producer_stops(done_value)
                   THEN [producer EXCEPT !.pc = "returned"]
                   ELSE [producer EXCEPT !.pc = "put"]
    /\ UNCHANGED <<evars, wvars, ovars>>
    /\ UNCHANGED <<qconf, activated, queue, done_value, consumer, cleaner,
                   qhist>>

\* Mutant: put() does not wait for room.
put_unbounded(obj) == queue' = Append(queue, obj)

\* put(): blocks while the queue is full.
put(obj) ==
    /\ Len(queue) < queue_maxsize
    /\ queue' = Append(queue, obj)

\* _producer, `self._queue.put(data)` and the advance of the two loops.
\* With repeat = -1 the model stops the producer after MaxRepeat passes.
ProducerPut ==
    /\ producer.pc = "put"
    /\ producer.rep < MaxRepeat
    /\ put(<<producer.rep, producer.idx>>)
    /\ enqueued' = Append(enqueued, <<producer.rep, producer.idx>>)
    /\ producer' = NextIteration(producer.rep, producer.idx)
    /\ UNCHANGED <<evars, wvars, ovars>>
    /\ UNCHANGED <<qconf, activated, done_value, consumer, cleaner,
                   delivered, discarded, cleanup_calls, qlife>>

\* Mutant: mark_as_done() writes the counter's initial value.
mark_as_done_resets == done_value' = 0

\* mark_as_done(), `self._done.value = 1`
mark_as_done == done_value' = 1

\* mark_as_done() called from outside the producer thread.
MarkAsDoneCall ==
    /\ mark_as_done
    /\ UNCHANGED <<evars, wvars, ovars>>
    /\ UNCHANGED <<qconf, activated, queue, producer, consumer, cleaner,
                   qhist>>

\* _producer, the final `self.mark_as_done()`
ProducerMark ==
    /\ producer.pc = "mark"
    /\ mark_as_done
    /\ producer' = [producer EXCEPT !.pc = "returned"]
    /\ UNCHANGED <<evars, wvars, ovars>>
    /\ UNCHANGED <<qconf, activated, queue, consumer, cleaner, qhist>>

\* A consumer enters get(): from _consumer's loop, or a direct call.  It is
\* "out" of get() before its first call and after a get() that returned an
\* item, and "stopped" after a get() that raised StopIteration.
GetCall(c) ==
    /\ consumer[c] \in {"out", "stopped"}
    /\ consumer' = [consumer EXCEPT ![c] = "get"]
    /\ UNCHANGED <<evars, wvars, ovars>>
    /\ UNCHANGED <<qconf, activated, queue, done_value, producer, cleaner,
                   qhist>>

\* Mutant: the newest item is removed and returned.
queue_get_newest(q) == [item |-> q[Len(q)], rest |-> SubSeq(q, 1, Len(q) - 1)]

\* Mutant: the item is returned and left in the queue.
queue_get_peek(q) == [item |-> Head(q), rest |-> q]

\* The item a successful `self._queue.get(...)` removes and returns.
queue_get(q) == [item |-> Head(q), rest |-> Tail(q)]

\* get(), `return self._queue.get(block=block, timeout=timeout)`: an item is
\* dequeued and returned ...
get_returns(c) ==
    /\ consumer[c] = "get"
    /\ queue # <<>>
    /\ queue' = queue_get(queue).rest
    /\ delivered' = Append(delivered, queue_get(queue).item)
    /\ consumer' = [consumer EXCEPT ![c] = "out"]
    /\ UNCHANGED <<qconf, activated, done_value, producer, cleaner, enqueued,
                   discarded, cleanup_calls, qlife>>

GetDequeue(c) ==
    /\ get_returns(c)
    /\ UNCHANGED <<evars, wvars, ovars>>

\* ... or the wait ends with Empty.
GetEmpty(c) ==
    /\ consumer[c] = "get"
    /\ queue = <<>>
    /\ consumer' = [consumer EXCEPT ![c] = "empty"]
    /\ UNCHANGED <<evars, wvars, ovars>>
    /\ UNCHANGED <<qconf, activated, queue, done_value, producer, cleaner,
                   qhist>>

\* Mutant: get() never looks at the flag and waits again.
get_exhausted_never(done) == FALSE

\* get(), `if self._done.value`
get_exhausted(done) == done # 0

\* get(), `except Empty: if self._done.value: raise StopIteration`
GetCheckDone(c) ==
    /\ consumer[c] = "empty"
    /\ consumer' = [consumer EXCEPT ![c] =
                        IF get_exhausted(done_value) THEN "stopped" ELSE "get"]
    /\ UNCHANGED <<evars, wvars, ovars>>
    /\ UNCHANGED <<qconf, activated, queue, done_value, producer, cleaner,
                   qhist>>

\* Mutant: cleanup() flips the flag instead of raising it.
cleanup_done_flip(done) == 1 - done

\* cleanup(), `self._done.value += 1`
cleanup_done(done) == done + 1

\* Mutant: the warning does not wait for the second cycle.
cleanup_warns_always(round) == TRUE

\* cleanup(), `if repeat >= 1: warnings.warn(...)`
cleanup_warns(round) == round >= 1

\* The warnings of a call after the start of the cycle `round`.
warned(count, round) == IF cleanup_warns(round) THEN count + 1 ELSE count

\* cleanup(), `with self._done.get_lock(): self._done.value += 1`
CleanupCall ==
    /\ cleaner.pc = "idle"
    /\ cleanup_calls < MaxCleanupCalls
    /\ cleanup_calls' = cleanup_calls + 1
    /\ done_value' = cleanup_done(done_value)
    /\ cleanup_midput' = (queue # <<>> /\ producer.pc = "put")
    /\ cleaner' = [pc |-> "drain", repeat |-> 0, warnings |-> warned(0, 0)]
    /\ UNCHANGED <<evars, wvars, ovars>>
    /\ UNCHANGED <<qconf, activated, queue, producer, consumer, enqueued,
                   delivered, discarded, producers_started, activate_errors>>

\* cleanup(), `while not self._queue.empty()`
CleanupDrainCheck ==
    /\ cleaner.pc = "drain"
    /\ cleaner' = [cleaner EXCEPT !.pc =
                        IF queue = <<>> THEN "sleep" ELSE "drainget"]
    /\ UNCHANGED <<evars, wvars, ovars>>
    /\ UNCHANGED <<qconf, activated, queue, done_value, producer, consumer,
                   qhist>>

\* cleanup(), `self._queue.get(block=False)` with Empty ignored
CleanupDrainGet ==
    /\ cleaner.pc = "drainget"
    /\ IF queue # <<>>
       THEN /\ queue' = queue_get(queue).rest
            /\ discarded' = Append(discarded, queue_get(queue).item)
       ELSE UNCHANGED <<queue, discarded>>
    /\ cleaner' = [cleaner EXCEPT !.pc = "drain"]
    /\ UNCHANGED <<evars, wvars, ovars>>
    /\ UNCHANGED <<qconf, activated, done_value, producer, consumer,
                   enqueued, delivered, cleanup_calls, qlife>>

\* cleanup(), `time.sleep(1.); if self._queue.empty(): break` and the next
\* round of `for repeat in range(500)`
CleanupSleep ==
    /\ cleaner.pc = "sleep"
    /\ cleaner' = IF queue = <<>> \/ cleaner.repeat + 1 >= CleanupRetries
                  THEN [cleaner EXCEPT !.pc = "idle", !.repeat = 0]
                  ELSE [pc |-> "drain", repeat |-> cleaner.repeat + 1,
                        warnings |-> warned(cleaner.warnings,
                                            cleaner.repeat + 1)]
    /\ UNCHANGED <<evars, wvars, ovars>>
    /\ UNCHANGED <<qconf, activated, queue, done_value, producer, consumer,
                   qhist>>

\* An item put from outside the producer thread.
ExtraItem == <<-1, 0>>

\* put(obj) called by another thread while cleanup() sleeps on the queue it
\* has just drained: an item reappears before the emptiness test.
PutCall ==
    /\ cleaner.pc = "sleep"
    /\ queue = <<>>
    /\ put(ExtraItem)
    /\ UNCHANGED <<evars, wvars, ovars>>
    /\ UNCHANGED <<qconf, activated, done_value, producer, consumer, cleaner,
                   qhist>>

\* ------------------------------------------------------- FiniteVectorEnv

\* Values crossing the worker boundary.  A worker that received no seed
\* answers with the "nan observation"; absence is None.
None == "None"
NanObs == "nan"
Obs == {"o1", "o2"}
Rewards == {"r1"}
Infos == {"i1"}

\* self._logger, a list of log writers
Loggers == 1..NumLoggers

EnvIds == 0..(env_num - 1)

\* The ids a caller may pass after _wrap_id: a non-empty list of distinct
\* slot indices, in any order.
IdLists ==
    {s \in UNION {[1..n -> EnvIds] : n \in 1..env_num} :
        \A a, b \in DOMAIN s : a # b => s[a] # s[b]}

Range(s) == {s[k] : k \in DOMAIN s}

\* check_nan_observation(obs): whether obs is the nan observation.
check_nan_observation(obs) == obs = NanObs

\* _postproc_env_obs
_postproc_env_obs(obs) ==
    IF obs = None \/ check_nan_observation(obs) THEN None ELSE obs

\* Mutant: refilled on every reset.
_reset_alive_envs_always(alive) == EnvIds

\* _reset_alive_envs: refilled only when empty ("starting or running out").
_reset_alive_envs(alive) == IF alive = {} THEN EnvIds ELSE alive

\* Mutant: every requested slot is forwarded.
request_id_all(id, alive) == id

\* `request_id = list(filter(lambda i: i in self._alive_env_ids, id))`
request_id(id, alive) == SelectSeq(id, LAMBDA i : i \in alive)

\* The first entry of a list that is not None, else None.
FirstNotNone(s) ==
    IF \E k \in DOMAIN s : s[k] # None
    THEN s[CHOOSE k \in DOMAIN s :
                s[k] # None /\ \A j \in DOMAIN s : s[j] # None => k <= j]
    ELSE None

\* _set_default_obs / _set_default_info / _set_default_rew applied to every
\* entry of a list in order: only the first value ever seen is kept.
set_default(default, s) == IF default = None THEN FirstNotNone(s) ELSE default

\* `if obs[i] is None: obs[i] = self._get_default_obs()` and its like
fill_default(s, default) ==
    [k \in DOMAIN s |-> IF s[k] = None THEN default ELSE s[k]]

\* reset(), lines 204-209: what each requested position holds after the
\* alive workers have answered (worker_obs: slot -> observation).
reset_obs(id, alive, worker_obs) ==
    [k \in DOMAIN id |->
        IF id[k] \in alive THEN _postproc_env_obs(worker_obs[id[k]]) ELSE None]

\* Mutant: every requested slot is removed.
reset_alive_requested(id, alive, obs) == alive \ Range(id)

\* reset(), lines 211-213: the slots left alive.
reset_alive(id, alive, obs) ==
    alive \ {id[k] : k \in {j \in DOMAIN id : obs[j] = None}}

\* Mutant: exhaustion is never raised.
reset_exhausted_never(alive) == FALSE

\* Mutant: exhaustion is raised as soon as one slot has retired.
reset_exhausted_any(alive) == alive # EnvIds

\* reset(), line 228: the exhaustion test.
reset_exhausted(alive) == alive = {}

\* Mutant: the assertion is missing.
assert_not_zombie_off == TRUE

\* reset() and step(), `assert not self._zombie`
assert_not_zombie == ~zombie

\* Mutant: a slot that is not asked reports the end of an episode.
step_result_ended(id, alive, worker_res) ==
    [k \in DOMAIN id |->
        IF id[k] \in alive
        THEN [worker_res[id[k]] EXCEPT
                 !.obs = _postproc_env_obs(worker_res[id[k]].obs)]
        ELSE [obs |-> None, rew |-> None, done |-> TRUE, info |-> None]]

\* Mutant: only the answers of the alive slots are returned, packed.
step_result_packed(id, alive, worker_res) ==
    LET req == SelectSeq(id, LAMBDA i : i \in alive)
    IN  [k \in DOMAIN req |->
            [worker_res[req[k]] EXCEPT
                 !.obs = _postproc_env_obs(worker_res[req[k]].obs)]]

\* step(), lines 241-248: what each requested position holds after the alive
\* workers have answered (worker_res: slot -> [obs, rew, done, info]).
step_result(id, alive, worker_res) ==
    [k \in DOMAIN id |->
        IF id[k] \in alive
        THEN [worker_res[id[k]] EXCEPT
                 !.obs = _postproc_env_obs(worker_res[id[k]].obs)]
        ELSE [obs |-> None, rew |-> None, done |-> FALSE, info |-> None]]

\* Mutant: reset() never warns.
reset_warns_never(guarded) == FALSE

\* reset(), `if not self._collector_guarded: warnings.warn(...)`; step() has
\* no such test.
reset_warns(guarded) == ~guarded

\* Mutant: on_env_reset is called for every requested slot.
reset_logged_requested(id, alive) == Range(id)

\* reset(), lines 216-219: the slots on_env_reset is called for, `alive`
\* being the alive set after the removals of this call.
reset_logged(id, alive) == {id[k] : k \in {j \in DOMAIN id : id[j] \in alive}}

\* Mutant: on_env_step is skipped for a slot without an observation.
step_logged_genuine(id, alive, result) ==
    {id[k] : k \in {j \in DOMAIN id :
                        id[j] \in alive /\ result[j].obs # None}}

\* step(), lines 251-254: the slots on_env_step is called for.
step_logged(id, alive, result) ==
    {id[k] : k \in {j \in DOMAIN id : id[j] \in alive}}

NoRet == [obs |-> <<>>, rew |-> <<>>, done |-> <<>>, info |-> <<>>]

NoCall ==
    [op |-> "none", id |-> <<>>, alive_before |-> {}, retired_before |-> {},
     invoked |-> {}, answers |-> <<>>, logged |-> {}, warned |-> FALSE,
     outcome |-> "none", ret |-> NoRet]

NoExit == [kind |-> "none", propagated |-> "none", returns |-> "none"]

\* The record of a call that raised before any worker was asked.
Refused(op, id, exc) ==
    [NoCall EXCEPT !.op = op, !.id = id, !.alive_before = alive_env_ids,
                   !.retired_before = retired, !.outcome = exc]

\* __init__
EnvInit ==
    /\ env_num \in 1..MaxEnvNum
    /\ alive_env_ids = _reset_alive_envs({})
    /\ zombie = FALSE
    /\ collector_guarded = FALSE
    /\ default_obs = None
    /\ default_info = None
    /\ default_rew = None
    /\ guard_pc = "outside"
    /\ raised = "none"
    /\ call = NoCall
    /\ retired = {}
    /\ exhausted = FALSE
    /\ all_done_calls = [l \in Loggers |-> 0]
    /\ last_exit = NoExit
    /\ scope_exited = FALSE

\* reset(id), given the answers of the workers asked (worker_obs) and whether
\* the underlying reset raised (worker_fails).
reset(id, worker_obs, worker_fails) ==
    LET alive0 == _reset_alive_envs(alive_env_ids)
        req == request_id(id, alive0)
        obs == reset_obs(id, alive0, worker_obs)
        alive1 == reset_alive(id, alive0, obs)
        d == set_default(default_obs, obs)
        rec == [NoCall EXCEPT !.op = "reset", !.id = id,
                              !.alive_before = alive_env_ids,
                              !.retired_before = retired,
                              !.invoked = Range(req),
                              !.answers = worker_obs,
                              !.warned = reset_warns(collector_guarded)]
    IN  IF ~assert_not_zombie
        THEN /\ call' = Refused("reset", id, "AssertionError")
             /\ raised' = "AssertionError"
             /\ UNCHANGED <<alive_env_ids, zombie, edefaults, retired,
                            exhausted>>
        ELSE IF worker_fails /\ req # <<>>
        THEN /\ alive_env_ids' = alive0
             /\ call' = [rec EXCEPT !.outcome = "WorkerError"]
             /\ raised' = "WorkerError"
             /\ UNCHANGED <<zombie, edefaults, retired, exhausted>>
        ELSE /\ alive_env_ids' = alive1
             /\ retired' = retired \cup (alive0 \ alive1)
             /\ default_obs' = d
             /\ zombie' = (zombie \/ reset_exhausted(alive1))
             /\ exhausted' = (exhausted \/ reset_exhausted(alive1))
             /\ raised' = IF reset_exhausted(alive1)
                          THEN "StopIteration" ELSE "none"
             /\ call' = [rec EXCEPT
                    !.logged = reset_logged(id, alive1),
                    !.outcome = IF reset_exhausted(alive1)
                                THEN "StopIteration" ELSE "returned",
                    !.ret = IF reset_exhausted(alive1) THEN NoRet
                            ELSE [NoRet EXCEPT !.obs = fill_default(obs, d)]]
             /\ UNCHANGED <<default_info, default_rew>>

\* step(action, id), given the answers of the workers asked (worker_res) and
\* whether the underlying step raised (worker_fails).
step(id, worker_res, worker_fails) ==
    LET req == request_id(id, alive_env_ids)
        result == step_result(id, alive_env_ids, worker_res)
        col(f) == [k \in DOMAIN result |-> result[k][f]]
        dinfo == set_default(default_info, col("info"))
        drew == set_default(default_rew, col("rew"))
        rec == [NoCall EXCEPT !.op = "step", !.id = id,
                              !.alive_before = alive_env_ids,
                              !.retired_before = retired,
                              !.invoked = Range(req),
                              !.answers = worker_res]
    IN  IF ~assert_not_zombie
        THEN /\ call' = Refused("step", id, "AssertionError")
             /\ raised' = "AssertionError"
             /\ UNCHANGED <<alive_env_ids, zombie, edefaults, retired,
                            exhausted>>
        ELSE IF worker_fails /\ req # <<>>
        THEN /\ call' = [rec EXCEPT !.outcome = "WorkerError"]
             /\ raised' = "WorkerError"
             /\ UNCHANGED <<alive_env_ids, zombie, edefaults, retired,
                            exhausted>>
        ELSE /\ default_info' = dinfo
             /\ default_rew' = drew
             /\ raised' = "none"
             /\ call' = [rec EXCEPT
                    !.logged = step_logged(id, alive_env_ids, result),
                    !.outcome = "returned",
                    !.ret = [obs |-> fill_default(col("obs"), default_obs),
                             rew |-> fill_default(col("rew"), drew),
                             done |-> col("done"),
                             info |-> fill_default(col("info"), dinfo)]]
             /\ UNCHANGED <<alive_env_ids, zombie, default_obs, retired,
                            exhausted>>

WorkerObs == Obs \cup {NanObs, None}
WorkerRes == [obs : WorkerObs, rew : Rewards, done : BOOLEAN, info : Infos]

\* What the workers asked by a call may do: nothing when the call is refused
\* or asks nobody, else all answer (each with a value of `values`) or the
\* underlying call raises.
WorkerOutcomes(req, values) ==
    IF ~assert_not_zombie \/ req = <<>>
    THEN {[answers |-> <<>>, fails |-> FALSE]}
    ELSE {[answers |-> <<>>, fails |-> TRUE]}
         \cup {[answers |-> a, fails |-> FALSE] : a \in [Range(req) -> values]}

\* A caller resets the slots `id`; the workers answer anything they may.
Reset ==
    /\ call = NoCall
    /\ \E id \in IdLists :
         \E w \in WorkerOutcomes(
                    request_id(id, _reset_alive_envs(alive_env_ids)),
                    WorkerObs) :
            reset(id, w.answers, w.fails)
    /\ UNCHANGED <<env_num, collector_guarded, guard_pc, all_done_calls,
                   last_exit, scope_exited>>
    /\ UNCHANGED <<qvars, wvars, ovars>>

\* A caller steps the slots `id`; the workers answer anything they may.
Step ==
    /\ call = NoCall
    /\ \E id \in IdLists :
         \E w \in WorkerOutcomes(request_id(id, alive_env_ids), WorkerRes) :
            step(id, w.answers, w.fails)
    /\ UNCHANGED <<env_num, collector_guarded, guard_pc, all_done_calls,
                   last_exit, scope_exited>>
    /\ UNCHANGED <<qvars, wvars, ovars>>

\* Mutant: the guard catches every exception.
guard_catches_all(exc) == TRUE

\* Mutant: the guard catches nothing.
guard_catches_nothing(exc) == FALSE

\* collector_guard(), `except StopIteration: pass`
guard_catches(exc) == exc = "StopIteration"

\* Mutant: entering the scope leaves the mark as it was.
guard_marks_nothing == collector_guarded

\* collector_guard(), `self._collector_guarded = True`: nothing is tested
\* before it, whatever scopes have been entered or left before.
guard_marks == TRUE

\* collector_guard(), up to the `yield`
CollectorGuardEnter ==
    /\ guard_pc = "outside"
    /\ call = NoCall
    /\ collector_guarded' = guard_marks
    /\ guard_pc' = "body"
    /\ all_done_calls' = [l \in Loggers |-> 0]
    /\ last_exit' = NoExit
    /\ UNCHANGED <<env_num, alive_env_ids, zombie, edefaults, raised, call,
                   retired, exhausted, scope_exited>>
    /\ UNCHANGED <<qvars, wvars, ovars>>

\* Mutant: the mark is cleared only when no exception leaves the scope.
guard_unmarks_quietly(leaves) == leaves

\* collector_guard(), `finally: self._collector_guarded = False`: the mark
\* after the scope, whether or not an exception leaves it.
guard_unmarks(leaves) == FALSE

\* Mutant: the method returns the collector's result however the body ended.
method_returns_always(kind, leaves) ==
    IF leaves THEN "raised" ELSE "collect_result"

\* TrainingVessel.validate() / test(): the body of the with statement is
\* `return test_collector.collect(...)` and nothing follows the statement,
\* so the method returns the collector's result when the body returned,
\* raises what leaves the scope, and falls off its end (None) otherwise.
method_returns(kind, leaves) ==
    IF leaves THEN "raised"
    ELSE IF kind = "return" THEN "collect_result" ELSE None

\* The ways the body of the with statement may end by itself.
BodyEnds == {"normal", "return", "StopIteration", "Error"}

\* collector_guard(), from the `yield` on: the body ended as `kind` (an
\* exception raised by a reset/step call inside the body ends it).  The
\* loggers are triggered after the try statement, which an exception that
\* is not caught never reaches.
collector_guard_exit(kind) ==
    LET exc == IF kind \in {"normal", "return"} THEN "none" ELSE kind
        leaves == exc # "none" /\ ~guard_catches(exc)
    IN  /\ collector_guarded' = guard_unmarks(leaves)
        /\ all_done_calls' =
              IF leaves THEN all_done_calls
              ELSE [l \in Loggers |-> all_done_calls[l] + 1]
        /\ last_exit' = [kind |-> kind,
                         propagated |-> IF leaves THEN exc ELSE "none",
                         returns |-> method_returns(kind, leaves)]

CollectorGuardExit ==
    /\ guard_pc = "body"
    /\ raised # "none" \/ call = NoCall
    /\ \E kind \in (IF raised = "none" THEN BodyEnds ELSE {raised}) :
          collector_guard_exit(kind)
    /\ guard_pc' = "outside"
    /\ scope_exited' = TRUE
    /\ raised' = "none"
    /\ call' = NoCall
    /\ UNCHANGED <<env_num, alive_env_ids, zombie, edefaults, retired,
                   exhausted>>
    /\ UNCHANGED <<qvars, wvars, ovars>>

\* A call that returned: the caller takes the result and goes on.
CallReturns ==
    /\ call # NoCall
    /\ raised = "none"
    /\ call' = NoCall
    /\ UNCHANGED <<env_num, alive_env_ids, zombie, collector_guarded,
                   edefaults, guard_pc, raised, retired, exhausted,
                   all_done_calls, last_exit, scope_exited>>
    /\ UNCHANGED <<qvars, wvars, ovars>>

\* Outside any guard the exception of a call reaches the caller, which
\* handles it.
CallerCatches ==
    /\ guard_pc = "outside"
    /\ raised # "none"
    /\ raised' = "none"
    /\ call' = NoCall
    /\ UNCHANGED <<env_num, alive_env_ids, zombie, collector_guarded,
                   edefaults, guard_pc, retired, exhausted, all_done_calls,
                   last_exit, scope_exited>>
    /\ UNCHANGED <<qvars, wvars, ovars>>

\* ------------------------------------------- workers over one DataQueue
\* Each slot's worker reads its seed from the shared DataQueue when it is
\* reset and answers with the nan observation when the queue is exhausted
\* (the protocol of the FiniteVectorEnv docstring, lines 105-108).  The
\* collect loop resets every slot, then steps all slots and resets those
\* whose episode ended, until the FiniteVectorEnv raises StopIteration.

AllIds == [k \in 1..env_num |-> k - 1]

\* The slots of `ids`, ascending, that are in S.
SlotsIn(S) == SelectSeq(AllIds, LAMBDA i : i \in S)

\* The observation a worker answers its reset with, after its get().
worker_reset_obs(c) == IF c = "out" THEN "o1" ELSE NanObs

\* A worker's get() returns the seed of its next episode.
WorkerGetDequeue(i) ==
    /\ get_returns(i)
    /\ worker' = [worker EXCEPT ![i] =
                      [seed |-> queue_get(queue).item, done |-> FALSE]]
    /\ episodes' =
          episodes \cup {[slot |-> i, seed |-> queue_get(queue).item]}
    /\ UNCHANGED <<evars, driver, unseeded_step, ovars>>

WorkersInit ==
    /\ driver = [pc |-> "reset", id |-> AllIds]
    /\ worker = [i \in EnvIds |-> [seed |-> NoItem, done |-> FALSE]]
    /\ episodes = {}
    /\ unseeded_step = FALSE

\* reset(id) up to the point where the alive workers have been asked: each
\* of them starts its get().
CollectResetBegin ==
    /\ driver.pc = "reset"
    /\ assert_not_zombie
    /\ driver' = [driver EXCEPT !.pc = "resetting"]
    /\ consumer' =
          [i \in DOMAIN consumer |->
              IF i \in Range(request_id(driver.id,
                                        _reset_alive_envs(alive_env_ids)))
              THEN "get" ELSE consumer[i]]
    /\ UNCHANGED <<qconf, activated, queue, done_value, producer, cleaner,
                   qhist>>
    /\ UNCHANGED <<evars, worker, episodes, unseeded_step, ovars>>

\* reset(id) from the point where every asked worker has answered.
CollectResetEnd ==
    LET asked == Range(request_id(driver.id,
                                  _reset_alive_envs(alive_env_ids)))
    IN  /\ driver.pc = "resetting"
        /\ \A i \in asked : consumer[i] \in {"out", "stopped"}
        /\ reset(driver.id,
                 [i \in asked |-> worker_reset_obs(consumer[i])], FALSE)
        /\ worker' = [i \in DOMAIN worker |->
                         IF i \in asked /\ consumer[i] = "stopped"
                         THEN [seed |-> NoItem, done |-> FALSE]
                         ELSE worker[i]]
        /\ driver' = IF raised' = "StopIteration"
                     THEN [pc |-> "finished", id |-> <<>>]
                     ELSE [pc |-> "step", id |-> AllIds]
        /\ UNCHANGED <<env_num, collector_guarded, guard_pc, all_done_calls,
                       last_exit, scope_exited>>
        /\ UNCHANGED <<qvars, episodes, unseeded_step, ovars>>

\* step(action, id) over all slots: every alive worker advances its episode,
\* which may end; the slots whose episode ended are reset next.
CollectStep ==
    /\ driver.pc = "step"
    /\ \E ended \in SUBSET alive_env_ids :
          /\ step(driver.id,
                  [i \in Range(request_id(driver.id, alive_env_ids)) |->
                      [obs |-> "o1", rew |-> "r1", done |-> i \in ended,
                       info |-> "i1"]],
                  FALSE)
          /\ worker' = [i \in DOMAIN worker |->
                           IF i \in alive_env_ids
                           THEN [worker[i] EXCEPT !.done = i \in ended]
                           ELSE worker[i]]
          /\ driver' = IF ended = {} THEN driver
                       ELSE [pc |-> "reset", id |-> SlotsIn(ended)]
    /\ unseeded_step' =
          (unseeded_step \/ \E i \in alive_env_ids : worker[i].seed = NoItem)
    /\ UNCHANGED <<env_num, collector_guarded, guard_pc, all_done_calls,
                   last_exit, scope_exited>>
    /\ UNCHANGED <<qvars, episodes, ovars>>

\* ------------------------------------------- fill_invalid and isinvalid
\* A python value is a tree.  A leaf is a python scalar ("int", "float",
\* "bool"), a numpy scalar ("number"), an "ndarray" of 0 or 1 dimensions, or
\* a value of another type ("other": None, a str); a container is a "dict",
\* a "list" or a "tuple".  Array elements and scalars are written as number
\* literals: the code only ever compares them with a marker.
Node(kind, dtype, ndim, data, keys, kids) ==
    [kind |-> kind, dtype |-> dtype, ndim |-> ndim, data |-> data,
     keys |-> keys, kids |-> kids]

NoTree == Node("unset", "", 0, <<>>, <<>>, <<>>)
NoVerdict == [of_sample |-> "unset", of_filled |-> "unset"]

\* The value of a call that raised ValueError.
ValueError == Node("ValueError", "", 0, <<>>, <<>>, <<>>)

Containers == {"dict", "list", "tuple"}
FloatDtypes == {"float32", "float64"}
IntDtypes == {"int8", "int64"}

\* The elements the samples are built from: the marker of the dtype and a
\* genuine number.
Elements(dtype) ==
    CASE dtype \in FloatDtypes -> {"nan", "0.5"}
      [] dtype = "int8" -> {"127", "5"}
      [] dtype = "int64" -> {"9223372036854775807", "5"}
      [] OTHER -> {"True"}

\* The leaves that weigh s: a scalar or an empty array weighs 1, an array
\* 1 more for every element.
LeavesOfSize(s) ==
    UNION {{Node("ndarray", d, 1, data, <<>>, <<>>) :
               data \in [1..(s - 1) -> Elements(d)]} :
              d \in {"float32", "int8", "bool"}}
    \cup (IF s # 1 THEN {}
          ELSE {Node("int", "", 0, <<v>>, <<>>, <<>>) : v \in Elements("int64")}
               \cup {Node("float", "", 0, <<v>>, <<>>, <<>>) :
                        v \in Elements("float64")}
               \cup {Node("bool", "", 0, <<"True">>, <<>>, <<>>)}
               \cup UNION {{Node("number", d, 0, <<v>>, <<>>, <<>>) :
                               v \in Elements(d)} : d \in {"float32", "int8"}}
               \cup {Node("other", "", 0, <<>>, <<>>, <<>>)})

\* A container over the values of kids; a dict's keys are its positions.
Container(c, kids) ==
    Node(c, "", 0, <<>>,
         IF c = "dict" THEN [k \in DOMAIN kids |-> k] ELSE <<>>, kids)

RECURSIVE TreesOfSize(_), ForestsOfSize(_)
\* The sequences of values that weigh s together.
ForestsOfSize(s) ==
    IF s = 0 THEN {<<>>}
    ELSE UNION {{<<t>> \o f : t \in TreesOfSize(k), f \in ForestsOfSize(s - k)} :
                   k \in 1..s}

\* The values that weigh s: a container weighs 1 more than its content.
TreesOfSize(s) ==
    LeavesOfSize(s)
    \cup {Container(c, f) : c \in Containers, f \in ForestsOfSize(s - 1)}

Trees == UNION {TreesOfSize(s) : s \in 1..MaxTreeSize}

\* hasattr(obj, "dtype")
has_dtype(obj) == obj.kind \in {"ndarray", "number"}

\* isinstance(obj, (int, float, bool))
is_python_scalar(obj) == obj.kind \in {"int", "float", "bool"}

\* np.array(obj) of a scalar: a 0-dimensional array of the scalar's dtype.
np_array(obj) ==
    Node("ndarray",
         CASE obj.kind = "int" -> "int64"
           [] obj.kind = "float" -> "float64"
           [] obj.kind = "bool" -> "bool"
           [] OTHER -> obj.dtype,
         0, obj.data, <<>>, <<>>)

\* np.issubdtype(dtype, np.floating)
issubdtype_floating(dtype) == dtype \in FloatDtypes

\* np.iinfo(dtype) raises ValueError for a dtype that is not an integer one.
iinfo_raises(dtype) == dtype \notin IntDtypes

\* np.iinfo(dtype).max
iinfo_max(dtype) == IF dtype = "int8" THEN "127" ELSE "9223372036854775807"

\* Mutant: the array is returned as it is.
full_like_same(arr, v) == arr

\* np.full_like(arr, v): the dtype and the shape of arr, every element v.
full_like(arr, v) == [arr EXCEPT !.data = [k \in DOMAIN arr.data |-> v]]

RECURSIVE fill_invalid(_)
\* fill_invalid(obj), lines 39-56.
fill_invalid(obj) ==
    IF is_python_scalar(obj) THEN fill_invalid(np_array(obj))
    ELSE IF has_dtype(obj)
    THEN IF obj.kind = "ndarray"
         THEN IF issubdtype_floating(obj.dtype) THEN full_like(obj, "nan")
              ELSE IF iinfo_raises(obj.dtype) THEN ValueError
              ELSE full_like(obj, iinfo_max(obj.dtype))
         ELSE fill_invalid(np_array(obj))
    ELSE IF obj.kind \in Containers
    THEN LET kids == [k \in DOMAIN obj.kids |-> fill_invalid(obj.kids[k])]
         IN  IF \E k \in DOMAIN kids : kids[k] = ValueError
             THEN ValueError
             ELSE [obj EXCEPT !.kids = kids]
    ELSE ValueError

\* Mutant: one invalid element is enough.
any(results) ==
    IF \E k \in DOMAIN results : results[k] = "ValueError" THEN "ValueError"
    ELSE IF \E k \in DOMAIN results : results[k] = "True" THEN "True"
    ELSE "False"

\* all([isinvalid(o) for o in ...]): the list is built first, so an
\* exception of any element is the exception of the whole.
all(results) ==
    IF \E k \in DOMAIN results : results[k] = "ValueError" THEN "ValueError"
    ELSE IF \A k \in DOMAIN results : results[k] = "True" THEN "True"
    ELSE "False"

\* (arr == v).all(), np.isnan(arr).all() for v = "nan"
np_all(arr, v) ==
    IF \A k \in DOMAIN arr.data : arr.data[k] = v THEN "True" ELSE "False"

RECURSIVE isinvalid(_)
\* isinvalid(arr), lines 59-70.
isinvalid(arr) ==
    IF has_dtype(arr)
    THEN IF issubdtype_floating(arr.dtype) THEN np_all(arr, "nan")
         ELSE IF iinfo_raises(arr.dtype) THEN "ValueError"
         ELSE np_all(arr, iinfo_max(arr.dtype))
    ELSE IF arr.kind \in Containers
    THEN all([k \in DOMAIN arr.kids |-> isinvalid(arr.kids[k])])
    ELSE IF is_python_scalar(arr) THEN isinvalid(np_array(arr))
    ELSE "True"

\* generate_nan_observation(): the sample of the space goes through
\* fill_invalid.
GenerateNanObservation ==
    /\ filled = NoTree
    /\ filled' = fill_invalid(sample)
    /\ UNCHANGED <<sample, verdict, svars, tvars, qvars, evars, wvars>>

\* check_nan_observation(obs) on the sample itself.
CheckSample ==
    /\ verdict.of_sample = "unset"
    /\ verdict' = [verdict EXCEPT !.of_sample = isinvalid(sample)]
    /\ UNCHANGED <<sample, filled, svars, tvars, qvars, evars, wvars>>

\* check_nan_observation(obs) on what generate_nan_observation returned.
CheckFilled ==
    /\ filled \notin {NoTree, ValueError}
    /\ verdict.of_filled = "unset"
    /\ verdict' = [verdict EXCEPT !.of_filled = isinvalid(filled)]
    /\ UNCHANGED <<sample, filled, svars, tvars, qvars, evars, wvars>>

CodecInit ==
    /\ sample \in Trees
    /\ filled = NoTree
    /\ verdict = NoVerdict

\* ------------------------------------------ SingleAssetOrderExecution
NoSimulator == [position |-> 0]
NoSimStep == [outcome |-> "none"]

\* Volumes are whole numbers of half an EPS, times whole numbers of ticks
\* (the rows of the backtest data, one per minute, which cover the order).
EPS == 2

\* time_per_step, in ticks.
StepTicks == {1, 2}

\* The amounts of an order and of a step: whole lots of one EPS, so that the
\* equal split over the ticks of a step is exact.
Lot == 2
OrderAmounts == {Lot * k : k \in 1..MaxOrderLots}
StepAmounts == {Lot * k : k \in (-MaxOrderLots)..(MaxOrderLots + 1)}

RECURSIVE sum(_)
\* exec_vol.sum()
sum(vol) == IF vol = <<>> THEN 0 ELSE vol[1] + sum(Tail(vol))

\* min(a, b)
min(a, b) == IF a <= b THEN a ELSE b

\* _next_time(), lines 185-187.
_next_time(sim) == min(sim.end_time, sim.cur_time + sim.time_per_step)

\* len(self.market_price): the ticks from cur_time up to next_time - ONE_SEC.
ticks_in_step(sim) ==
    IF _next_time(sim) > sim.cur_time THEN _next_time(sim) - sim.cur_time
    ELSE 0

\* np.minimum(exec_vol, market_vol_limit), np.inf without a vol_threshold.
np_minimum(vol, sim) ==
    IF sim.vol_threshold = "None" THEN vol
    ELSE [k \in DOMAIN vol |-> min(vol[k], sim.market_vol_limit)]

\* exec_vol[-1] += self.position - exec_vol.sum()
complete_at_last(vol, position) ==
    [vol EXCEPT ![Len(vol)] = vol[Len(vol)] + position - sum(vol)]

\* _split_exec_vol(exec_vol_sum), lines 193-217, for a step that has ticks.
_split_exec_vol(sim, exec_vol_sum) ==
    LET n == ticks_in_step(sim)
        equal == np_minimum([k \in 1..n |-> exec_vol_sum \div n], sim)
    IN  IF _next_time(sim) = sim.end_time
        THEN np_minimum(complete_at_last(equal, sim.position), sim)
        ELSE equal

\* Mutant: every volume is accepted.
invalid_volume_never(position, exec_vol) == FALSE

\* step(), line 140: the test that raises ValueError.
invalid_volume(position, exec_vol) ==
    \/ position < -EPS
    \/ \E k \in DOMAIN exec_vol : exec_vol[k] < -EPS

\* done(), lines 182-183.
done(sim) == sim.position < EPS \/ sim.cur_time >= sim.end_time

\* __init__: the simulator of an order, at the first tick of the data.
SimulatorInit ==
    /\ \E amount \in OrderAmounts, end_time \in 1..MaxTicks,
          time_per_step \in StepTicks,
          limit \in {-1} \cup (0..MaxVolLimit) :
          simulator = [amount |-> amount,
                       end_time |-> end_time,
                       time_per_step |-> time_per_step,
                       vol_threshold |-> IF limit = -1 THEN "None" ELSE "set",
                       market_vol_limit |-> IF limit = -1 THEN 0 ELSE limit,
                       position |-> amount,
                       cur_time |-> 0,
                       steps |-> 0]
    /\ sim_step = NoSimStep

\* What step(amount) was called on.
StepCalled(amount, exec_vol, outcome) ==
    [outcome |-> outcome,
     amount |-> amount,
     exec_vol |-> exec_vol,
     position_before |-> simulator.position,
     done_before |-> done(simulator),
     capped |-> simulator.vol_threshold # "None",
     final |-> _next_time(simulator) = simulator.end_time]

\* step(amount), lines 126-168, in a step that has ticks.  The position is
\* reduced before the volumes are tested; the records of lines 143-166 change
\* neither the position nor the time.
SimStep ==
    /\ simulator.steps < MaxSteps
    /\ ticks_in_step(simulator) > 0
    /\ \E amount \in StepAmounts :
          LET exec_vol == _split_exec_vol(simulator, amount)
              position == simulator.position - sum(exec_vol)
          IN  IF invalid_volume(position, exec_vol)
              THEN /\ simulator' = [simulator EXCEPT
                                       !.position = position,
                                       !.steps = @ + 1]
                   /\ sim_step' = StepCalled(amount, exec_vol, "ValueError")
              ELSE /\ simulator' = [simulator EXCEPT
                                       !.position = position,
                                       !.cur_time = _next_time(simulator),
                                       !.steps = @ + 1]
                   /\ sim_step' = StepCalled(amount, exec_vol, "returned")
    /\ UNCHANGED <<cvars, tvars, qvars, evars, wvars>>

\* step(amount) at or after the end time: the step has no tick, and the
\* equal split divides by zero, a ZeroDivisionError for a python float and,
\* for a numpy one, an IndexError two lines later at exec_vol[-1].
SimStepNoTick ==
    /\ simulator.steps < MaxSteps
    /\ ticks_in_step(simulator) = 0
    /\ \E amount \in StepAmounts,
          outcome \in {"ZeroDivisionError", "IndexError"} :
          sim_step' = StepCalled(amount, <<>>, outcome)
    /\ simulator' = [simulator EXCEPT !.steps = @ + 1]
    /\ UNCHANGED <<cvars, tvars, qvars, evars, wvars>>

\* ------------------------------------------------------------ OnPolicyTrainer
\* entries/train.py.  env_fn(logger, dataset, is_train) is the caller's
\* callable returning (vector env, data_fn); data_fn is the data queue the
\* environments consume and the trainer only ever calls its cleanup().

MaxEpoch == 2

\* What one env_fn call does: it returns the pair, or raises before it has
\* built the queue (data_factory), or raises once the queue exists
\* (reward.train, env_factory over the queue).
EnvFnOutcomes == {"returns", "raises", "raises_after_queue"}

\* What _train_epoch() / Collector.collect() does.
CollectOutcomes == {"returns", "StopIteration", "Error"}

\* earlystop.step(val_result)
EarlyStopStatus == {"BEST", "CONTINUE", "STOP"}

\* A local holding no queue: data_fn = None in train(); in evaluate() the
\* name data_fn before the tuple assignment has bound it.
NoDataFn == {}

NoTrainer ==
    [method |-> "none", pc |-> "none", max_epoch |-> 0, val_every |-> 1,
     cur_epoch |-> 0, data_fn |-> NoDataFn, eval_data_fn |-> NoDataFn,
     created |-> 0, cleaned |-> {}, escaping |-> "none"]

TrainerUnused == trainer = NoTrainer

\* train(): the locals after _resume(), which may have loaded cur_epoch.
train_entry(max_epoch, val_every, resumed) ==
    [NoTrainer EXCEPT !.method = "train", !.pc = "while",
                      !.max_epoch = max_epoch, !.val_every = val_every,
                      !.cur_epoch = resumed]

\* evaluate() called on its own.
evaluate_entry == [NoTrainer EXCEPT !.method = "evaluate", !.pc = "eval_env_fn"]

TrainerInit ==
    trainer \in {evaluate_entry}
                \cup {train_entry(m, v, r) : m \in 1..MaxEpoch,
                                             v \in 1..MaxEpoch,
                                             r \in 0..MaxEpoch}

\* The queues env_fn has built so far, numbered in creation order.
created_queues(t) == 1..t.created

\* `if cur_epoch == max_epoch or cur_epoch % val_every_n_epoch == 0`
validates(t) == t.cur_epoch = t.max_epoch \/ t.cur_epoch % t.val_every = 0

\* `while cur_epoch < max_epoch: cur_epoch += 1; if train_env is None:`
TrainWhile ==
    /\ trainer.pc = "while"
    /\ trainer' =
         IF trainer.cur_epoch < trainer.max_epoch
         THEN [trainer EXCEPT !.cur_epoch = @ + 1,
                              !.pc = IF trainer.data_fn = NoDataFn
                                     THEN "env_fn" ELSE "train_epoch"]
         ELSE [trainer EXCEPT !.pc = "finally"]
    /\ UNCHANGED <<cvars, svars, qvars, evars, wvars>>

\* `train_env, data_fn = env_fn(logger, train_dataset, True)`
TrainEnvFn ==
    /\ trainer.pc = "env_fn"
    /\ \E out \in EnvFnOutcomes :
         trainer' =
           CASE out = "returns" ->
                  [trainer EXCEPT !.created = @ + 1,
                                  !.data_fn = {trainer.created + 1},
                                  !.pc = "train_epoch"]
             [] out = "raises" ->
                  [trainer EXCEPT !.escaping = "Error", !.pc = "finally"]
             [] out = "raises_after_queue" ->
                  [trainer EXCEPT !.created = @ + 1,
                                  !.escaping = "Error", !.pc = "finally"]
    /\ UNCHANGED <<cvars, svars, qvars, evars, wvars>>

\* `collector_res = self._train_epoch(...)` and the test that follows it.
TrainEpoch ==
    /\ trainer.pc = "train_epoch"
    /\ \E out \in CollectOutcomes :
         trainer' =
           IF out = "returns"
           THEN [trainer EXCEPT !.pc = IF validates(trainer)
                                       THEN "validate" ELSE "while"]
           ELSE [trainer EXCEPT !.escaping = out, !.pc = "finally"]
    /\ UNCHANGED <<cvars, svars, qvars, evars, wvars>>

\* `data_fn.cleanup(); train_env = data_fn = None; self.evaluate(...)`:
\* the call enters evaluate() with a fresh frame.
TrainValidate ==
    /\ trainer.pc = "validate"
    /\ trainer' = [trainer EXCEPT !.cleaned = @ \cup trainer.data_fn,
                                  !.data_fn = NoDataFn,
                                  !.eval_data_fn = NoDataFn,
                                  !.pc = "eval_env_fn"]
    /\ UNCHANGED <<cvars, svars, qvars, evars, wvars>>

\* `es = earlystop.step(val_result)`: STOP breaks out of the loop.
TrainEarlyStop ==
    /\ trainer.pc = "earlystop"
    /\ \E es \in EarlyStopStatus :
         trainer' = [trainer EXCEPT !.pc = IF es = "STOP"
                                           THEN "finally" ELSE "while"]
    /\ UNCHANGED <<cvars, svars, qvars, evars, wvars>>

\* train()'s `finally: if data_fn is not None: data_fn.cleanup()`, after
\* which the method returns or the exception goes on to the caller.
TrainFinally ==
    /\ trainer.pc = "finally"
    /\ trainer' = [trainer EXCEPT !.cleaned = @ \cup trainer.data_fn,
                                  !.pc = IF trainer.escaping = "none"
                                         THEN "returned" ELSE "raised"]
    /\ UNCHANGED <<cvars, svars, qvars, evars, wvars>>

\* evaluate(): `venv, data_fn = env_fn(logger, dataset, False)`.  When the
\* call raises, the assignment never happens.
EvalEnvFn ==
    /\ trainer.pc = "eval_env_fn"
    /\ \E out \in EnvFnOutcomes :
         trainer' =
           CASE out = "returns" ->
                  [trainer EXCEPT !.created = @ + 1,
                                  !.eval_data_fn = {trainer.created + 1},
                                  !.pc = "eval_collect"]
             [] out = "raises" ->
                  [trainer EXCEPT !.escaping = "Error",
                                  !.pc = "eval_finally"]
             [] out = "raises_after_queue" ->
                  [trainer EXCEPT !.created = @ + 1,
                                  !.escaping = "Error",
                                  !.pc = "eval_finally"]
    /\ UNCHANGED <<cvars, svars, qvars, evars, wvars>>

\* `test_collector.collect(n_step=int(1E18) * len(venv))` under
\* `except StopIteration: pass`.
EvalCollect ==
    /\ trainer.pc = "eval_collect"
    /\ \E out \in CollectOutcomes :
         trainer' = [trainer EXCEPT !.escaping = IF out = "Error"
                                                 THEN "Error" ELSE "none",
                                    !.pc = "eval_finally"]
    /\ UNCHANGED <<cvars, svars, qvars, evars, wvars>>

\* evaluate()'s `finally: data_fn.cleanup()`: on a name that was never
\* bound the statement raises UnboundLocalError, which replaces the
\* exception in flight.
eval_finally(t) ==
    IF t.eval_data_fn = NoDataFn
    THEN [t EXCEPT !.escaping = "UnboundLocalError"]
    ELSE [t EXCEPT !.cleaned = @ \cup t.eval_data_fn]

\* Where evaluate() hands control: to its caller's next statement or
\* handler when train() called it, out of the method otherwise.
eval_leaves(t) ==
    IF t.method = "train"
    THEN IF t.escaping = "none" THEN "earlystop" ELSE "finally"
    ELSE IF t.escaping = "none" THEN "returned" ELSE "raised"

EvalFinally ==
    /\ trainer.pc = "eval_finally"
    /\ trainer' = [eval_finally(trainer) EXCEPT
                      !.pc = eval_leaves(eval_finally(trainer))]
    /\ UNCHANGED <<cvars, svars, qvars, evars, wvars>>

\* ----------------------------------------------------------- specifications

\* Variables a specification does not use stay at these values.
QueueUnused ==
    /\ dataset_len = 0 /\ repeat = 1 /\ queue_maxsize = 1
    /\ activated = FALSE /\ queue = <<>> /\ done_value = 0
    /\ producer = [pc |-> "unstarted", rep |-> 0, idx |-> 0]
    /\ consumer = <<>>
    /\ cleaner = [pc |-> "idle", repeat |-> 0, warnings |-> 0]
    /\ enqueued = <<>> /\ delivered = <<>> /\ discarded = <<>>
    /\ cleanup_calls = 0
    /\ producers_started = 0 /\ activate_errors = 0
    /\ cleanup_midput = FALSE

EnvUnused ==
    /\ env_num = 1 /\ alive_env_ids = {} /\ zombie = FALSE
    /\ collector_guarded = FALSE
    /\ default_obs = None /\ default_info = None /\ default_rew = None
    /\ guard_pc = "outside" /\ raised = "none" /\ call = NoCall
    /\ retired = {} /\ exhausted = FALSE
    /\ all_done_calls = [l \in Loggers |-> 0]
    /\ last_exit = NoExit
    /\ scope_exited = FALSE

WorkersUnused ==
    /\ driver = [pc |-> "none", id |-> <<>>]
    /\ worker = <<>>
    /\ episodes = {}
    /\ unseeded_step = FALSE

CodecUnused ==
    /\ sample = NoTree
    /\ filled = NoTree
    /\ verdict = NoVerdict

SimulatorUnused ==
    /\ simulator = NoSimulator
    /\ sim_step = NoSimStep

OthersUnused == CodecUnused /\ SimulatorUnused /\ TrainerUnused

\* The FiniteVectorEnv under any caller, over workers that answer anything.
Init == EnvInit /\ QueueUnused /\ WorkersUnused /\ OthersUnused

Next ==
    \/ Reset
    \/ Step
    \/ CollectorGuardEnter
    \/ CollectorGuardExit
    \/ CallReturns
    \/ CallerCatches

Spec == Init /\ [][Next]_vars

\* The DataQueue with its producer thread, consumers and a cleanup() caller.
InitQueue ==
    QueueInit(Consumers) /\ EnvUnused /\ WorkersUnused /\ OthersUnused

NextQueue ==
    \/ Activate
    \/ ProducerCheck
    \/ ProducerPut
    \/ ProducerMark
    \/ \E c \in DOMAIN consumer : GetCall(c)
    \/ \E c \in DOMAIN consumer : GetDequeue(c)
    \/ \E c \in DOMAIN consumer : GetEmpty(c)
    \/ \E c \in DOMAIN consumer : GetCheckDone(c)
    \/ CleanupCall
    \/ CleanupDrainCheck
    \/ CleanupDrainGet
    \/ CleanupSleep

SpecQueue == InitQueue /\ [][NextQueue]_vars

\* The whole life of one DataQueue: activate() called any number of times,
\* the producer thread, mark_as_done() and cleanup() called from outside, and
\* a consumer pulling.
InitLifecycle ==
    QueueInit(Pullers) /\ EnvUnused /\ WorkersUnused /\ OthersUnused

NextLifecycle ==
    \/ Activate
    \/ ActivateTwice
    \/ ProducerCheck
    \/ ProducerPut
    \/ ProducerMark
    \/ MarkAsDoneCall
    \/ \E c \in DOMAIN consumer : GetCall(c)
    \/ \E c \in DOMAIN consumer : GetDequeue(c)
    \/ \E c \in DOMAIN consumer : GetEmpty(c)
    \/ \E c \in DOMAIN consumer : GetCheckDone(c)
    \/ CleanupCall
    \/ CleanupDrainCheck
    \/ CleanupDrainGet
    \/ CleanupSleep

SpecLifecycle == InitLifecycle /\ [][NextLifecycle]_vars

\* The consumers' side of that life: the same queue, activated once, under
\* the scheduling the consumers run with.  Every consumer is a thread or
\* process of its own that the scheduler keeps running, and
\* `self._queue.get(block, timeout)` ends with an item or with Empty, so a
\* consumer inside get() takes its next step.
NextPull ==
    \/ Activate
    \/ ProducerCheck
    \/ ProducerPut
    \/ ProducerMark
    \/ MarkAsDoneCall
    \/ \E c \in DOMAIN consumer : GetCall(c)
    \/ \E c \in DOMAIN consumer : GetDequeue(c)
    \/ \E c \in DOMAIN consumer : GetEmpty(c)
    \/ \E c \in DOMAIN consumer : GetCheckDone(c)
    \/ CleanupCall
    \/ CleanupDrainCheck
    \/ CleanupDrainGet
    \/ CleanupSleep

FairPull ==
    \A c \in Pullers :
        WF_vars(GetDequeue(c) \/ GetEmpty(c) \/ GetCheckDone(c))

SpecPull == InitLifecycle /\ [][NextPull]_vars /\ FairPull

\* The producer's and the cleanup() caller's side of that life: both are
\* threads that the scheduler keeps running, the producer while its put() is
\* not waiting for room.  Nothing is assumed of the consumers.
FairDrain ==
    /\ WF_vars(ProducerCheck \/ ProducerPut \/ ProducerMark)
    /\ WF_vars(CleanupDrainCheck \/ CleanupDrainGet \/ CleanupSleep)

SpecDrain == InitLifecycle /\ [][NextPull]_vars /\ FairDrain

\* cleanup() on a queue that another thread keeps refilling.
InitRefill ==
    /\ InitLifecycle
    /\ dataset_len = 0
    /\ repeat = 1

\* The one cleanup() call of `with DataQueue(...)`.
CleanupOnce == cleanup_calls = 0 /\ CleanupCall

NextRefill ==
    \/ PutCall
    \/ CleanupOnce
    \/ CleanupDrainCheck
    \/ CleanupDrainGet
    \/ CleanupSleep

SpecRefill == InitRefill /\ [][NextRefill]_vars

\* The collect loop over a FiniteVectorEnv whose workers share one finite
\* DataQueue.
InitCollect ==
    /\ EnvInit
    /\ QueueInit(EnvIds)
    /\ repeat # -1
    /\ WorkersInit
    /\ OthersUnused

NextCollect ==
    \/ Activate
    \/ ProducerCheck
    \/ ProducerPut
    \/ ProducerMark
    \/ \E c \in DOMAIN consumer : WorkerGetDequeue(c)
    \/ \E c \in DOMAIN consumer : GetEmpty(c)
    \/ \E c \in DOMAIN consumer : GetCheckDone(c)
    \/ CollectResetBegin
    \/ CollectResetEnd
    \/ CollectStep

SpecCollect == InitCollect /\ [][NextCollect]_vars

\* A step of the collect loop after which at least one episode has ended.
CollectStepEnding == CollectStep /\ driver'.pc = "reset"

\* The worker of slot c, if the vector env has that slot, goes on in its get().
WorkerRuns(c) ==
    /\ c \in DOMAIN consumer
    /\ (WorkerGetDequeue(c) \/ GetEmpty(c) \/ GetCheckDone(c))

\* The collect loop as it is scheduled: the DataQueue has been activated
\* (`with DataQueue(...) as dq`) and its producer thread runs; every worker
\* inside get() takes its next step; the driver keeps calling reset and step;
\* and no episode goes on forever, so the driver's steps keep ending episodes.
FairCollect ==
    /\ WF_vars(Activate \/ ProducerCheck \/ ProducerPut \/ ProducerMark)
    /\ \A c \in 0..(MaxEnvNum - 1) : WF_vars(WorkerRuns(c))
    /\ WF_vars(CollectResetBegin \/ CollectResetEnd)
    /\ WF_vars(CollectStepEnding)

\* The passes over the dataset hand out at most MaxDatasetLen seeds in all.
InitCollectFair == InitCollect /\ dataset_len * repeat <= MaxDatasetLen

SpecCollectFair == InitCollectFair /\ [][NextCollect]_vars /\ FairCollect

\* fill_invalid and isinvalid over every value up to a weight.
InitCodec ==
    /\ CodecInit
    /\ SimulatorUnused /\ TrainerUnused
    /\ QueueUnused /\ EnvUnused /\ WorkersUnused

NextCodec ==
    \/ GenerateNanObservation
    \/ CheckSample
    \/ CheckFilled

SpecCodec == InitCodec /\ [][NextCodec]_vars

\* One SingleAssetOrderExecution simulator under any sequence of steps.
InitSimulator ==
    /\ SimulatorInit
    /\ CodecUnused /\ TrainerUnused
    /\ QueueUnused /\ EnvUnused /\ WorkersUnused

NextSimulator ==
    \/ SimStep
    \/ SimStepNoTick

SpecSimulator == InitSimulator /\ [][NextSimulator]_vars

\* One OnPolicyTrainer.train() or evaluate() call under any env_fn,
\* collector and early-stop verdicts.
InitTrainer ==
    /\ TrainerInit
    /\ CodecUnused /\ SimulatorUnused
    /\ QueueUnused /\ EnvUnused /\ WorkersUnused

NextTrainer ==
    \/ TrainWhile
    \/ TrainEnvFn
    \/ TrainEpoch
    \/ TrainValidate
    \/ TrainEarlyStop
    \/ TrainFinally
    \/ EvalEnvFn
    \/ EvalCollect
    \/ EvalFinally

SpecTrainer == InitTrainer /\ [][NextTrainer]_vars

\* ------------------------------------------------------------------ claims

\* C1: no loss.  With a finite repeat and no cleanup() call, once every
\* consumer has pulled until StopIteration, the consumers have together
\* received repeat * len(dataset) items, each source item `repeat` times, and
\* nothing the producer enqueued is left in the queue.
C1_NoLoss ==
    (/\ repeat # -1
     /\ cleanup_calls = 0
     /\ \A c \in DOMAIN consumer : consumer[c] = "stopped") =>
        /\ Len(delivered) = repeat * dataset_len
        /\ \A idx \in 0..(dataset_len - 1) :
              Cardinality({k \in DOMAIN delivered : delivered[k][2] = idx})
                 = repeat
        /\ queue = <<>>

\* C2: no duplication.  Every item the producer enqueued is returned by at
\* most one get() over the queue's whole life: the items delivered and the
\* items discarded by cleanup are all different, all were enqueued, and they
\* never outnumber the items enqueued.
C2_NoDuplication ==
    LET out == delivered \o discarded
    IN  /\ Len(out) <= Len(enqueued)
        /\ Range(out) \subseteq Range(enqueued)
        /\ \A a, b \in DOMAIN out : a # b => out[a] # out[b]

\* C2 witness: two get() calls have returned an item each, cleanup has
\* discarded another, and one more is buffered.
C2_Witness ==
    /\ Len(delivered) >= 2
    /\ Len(discarded) >= 1
    /\ queue # <<>>

\* C3: full width.  A reset(ids) that returns gives exactly len(ids)
\* observations and a step(actions, ids) that returns gives four components
\* of len(ids) entries each; position k holds what the worker of slot ids[k]
\* answered when that slot was alive and answered a genuine value, and the
\* cached default otherwise.
C3_FullWidth ==
    call.outcome = "returned" =>
        LET n == Len(call.id)
            live(k) == call.id[k] \in call.alive_before
            ans(k) == call.answers[call.id[k]]
        IN  IF call.op = "reset"
            THEN /\ DOMAIN call.ret.obs = 1..n
                 /\ \A k \in 1..n :
                       call.ret.obs[k] =
                          IF live(k) /\ _postproc_env_obs(ans(k)) # None
                          THEN ans(k) ELSE default_obs
            ELSE /\ DOMAIN call.ret.obs = 1..n
                 /\ DOMAIN call.ret.rew = 1..n
                 /\ DOMAIN call.ret.done = 1..n
                 /\ DOMAIN call.ret.info = 1..n
                 /\ \A k \in 1..n :
                       /\ call.ret.obs[k] =
                             IF live(k) /\ _postproc_env_obs(ans(k).obs) # None
                             THEN ans(k).obs ELSE default_obs
                       /\ call.ret.rew[k] =
                             IF live(k) THEN ans(k).rew ELSE default_rew
                       /\ call.ret.done[k] =
                             IF live(k) THEN ans(k).done ELSE FALSE
                       /\ call.ret.info[k] =
                             IF live(k) THEN ans(k).info ELSE default_info

\* C3 witness: a reset over two slots in descending order returned, one of
\* the two slots alive and the other retired.
C3_Witness ==
    /\ call.op = "reset"
    /\ call.outcome = "returned"
    /\ Len(call.id) >= 2
    /\ call.id[1] > call.id[2]
    /\ call.invoked # {}
    /\ call.invoked # Range(call.id)

\* C3 second witness state: a step returned although none of the requested
\* slots was alive.
C3_WitnessStep ==
    /\ call.op = "step"
    /\ call.outcome = "returned"
    /\ call.invoked = {}

\* C4: the alive set never grows after construction, over any sequence of
\* reset, step and collector_guard entries and exits; a retired slot is
\* never alive again.
C4_AliveNonIncreasing ==
    [][/\ alive_env_ids' \subseteq alive_env_ids
       /\ retired' \cap alive_env_ids' = {}]_vars

\* C4 witness: every slot has retired, a guard scope has ended, and a later
\* reset has been attempted.
C4_Witness ==
    /\ alive_env_ids = {}
    /\ retired = EnvIds
    /\ last_exit.kind # "none"
    /\ call.op = "reset"

\* C5: a reset that has processed the workers' observations raises
\* StopIteration exactly when the alive set is empty after it: on the call in
\* which the last alive slots answer with the nan observation (or with no
\* observation), and never while a slot is still alive.
C5_ResetRaisesIffEmpty ==
    (call.op = "reset" /\ call.outcome \in {"returned", "StopIteration"}) =>
        /\ call.outcome = "StopIteration" <=> alive_env_ids = {}
        /\ call.outcome = "StopIteration" =>
              /\ call.alive_before # {}
              /\ call.alive_before \subseteq Range(call.id)
              /\ \A i \in call.alive_before :
                    _postproc_env_obs(call.answers[i]) = None

\* C5 witness: the last alive slot answers nan in a reset that comes after
\* another slot had retired in an earlier call.
C5_Witness ==
    /\ call.op = "reset"
    /\ call.outcome = "StopIteration"
    /\ call.retired_before # {}

\* C5 second witness state: a reset in which one slot retires returns,
\* because another slot is still alive.
C5_WitnessReturns ==
    /\ call.op = "reset"
    /\ call.outcome = "returned"
    /\ call.alive_before # alive_env_ids

\* C6: once a call has raised StopIteration, every later reset or step fails
\* the assertion, asks no worker, and leaves the alive set, the defaults and
\* the terminal flag as they were.
C6_TerminalRejects ==
    [][exhausted =>
          /\ alive_env_ids' = alive_env_ids
          /\ edefaults' = edefaults
          /\ zombie' = zombie
          /\ call' \in {call, NoCall} \/
                (call'.outcome = "AssertionError" /\ call'.invoked = {})]_vars

\* C6 witness: after the exhaustion a step has been refused.
C6_Witness ==
    /\ exhausted
    /\ call.op = "step"
    /\ call.outcome = "AssertionError"

\* C7: a reset or step forwards to exactly the requested slots that are
\* alive when the call starts, and never to a slot that has retired.
C7_OnlyAliveForwarded ==
    call # NoCall =>
        /\ call.invoked \cap call.retired_before = {}
        /\ call.invoked \subseteq Range(call.id) \cap call.alive_before
        /\ call.outcome \in {"returned", "StopIteration"} =>
              call.invoked = Range(call.id) \cap call.alive_before
        /\ call.outcome = "AssertionError" => call.invoked = {}

\* C7 witness: a step over a retired and an alive slot returned.
C7_Witness ==
    /\ call.op = "step"
    /\ call.outcome = "returned"
    /\ Range(call.id) \cap call.retired_before # {}
    /\ call.invoked # {}

\* Every seed of the finite queue: `repeat` passes over the dataset.
AllSeeds == (0..(repeat - 1)) \X (0..(dataset_len - 1))

\* C8: exactly-once consumption.  With the slots' workers sharing one finite
\* DataQueue, no seed starts more than one episode, no worker is stepped
\* without a seed, and when the collect loop has ended with StopIteration
\* every seed has started an episode on some slot.
C8_ExactlyOnce ==
    /\ \A a, b \in episodes : a.seed = b.seed => a = b
    /\ ~unseeded_step
    /\ driver.pc = "finished" =>
          \A seed \in AllSeeds : \E e \in episodes : e.seed = seed

\* C9: whichever way a collector_guard() scope ends, every logger's
\* on_env_all_done is called exactly once for it.
C9_AllDoneExactlyOnce ==
    last_exit.kind # "none" => \A l \in Loggers : all_done_calls[l] = 1

\* C10: a StopIteration raised inside a collector_guard() body does not leave
\* the guard: the with statement completes and the caller goes on.
C10_ExhaustionSuppressed ==
    last_exit.kind = "StopIteration" =>
        /\ last_exit.propagated = "none"
        /\ guard_pc = "outside" => ~collector_guarded

\* C10 witness: the scope ended by the StopIteration of the reset that
\* retired the last slot.
C10_Witness ==
    /\ last_exit.kind = "StopIteration"
    /\ zombie
    /\ guard_pc = "outside"

\* C11: a get() raises StopIteration only with the flag set and the buffer
\* empty: never while the flag is unset, and never while buffered items
\* remain, which it returns instead.
C11_ExhaustedOnlyWhenClosedEmpty ==
    [][\A c \in DOMAIN consumer :
          (consumer[c] # "stopped" /\ consumer'[c] = "stopped") =>
              /\ done_value # 0
              /\ queue = <<>>]_vars

\* C12: liveness of get().  Once the flag is set, by the producer after its
\* last pass, by mark_as_done() or by cleanup(), every get() call that is
\* pending or made later ends: it returns a buffered item or raises
\* StopIteration.
C12_GetTerminates ==
    \A c \in Pullers :
        (done_value # 0 /\ consumer[c] \in {"get", "empty"})
            ~> (consumer[c] \in {"out", "stopped"})

\* C12 witness: a get() that found the queue empty after cleanup() had
\* discarded items ended with StopIteration.
C12_Witness ==
    /\ consumer[1] = "stopped"
    /\ done_value # 0
    /\ discarded # <<>>
    /\ cleaner.pc = "idle"

\* C13: with repeat = -1 over a non-empty dataset and no cleanup() call, the
\* producer never reaches mark_as_done(), the flag stays unset and no get()
\* raises StopIteration.
C13_UnboundedNeverExhausts ==
    (repeat = -1 /\ cleanup_calls = 0) =>
        /\ done_value = 0
        /\ producer.pc \notin {"mark", "returned"}
        /\ \A c \in DOMAIN consumer : consumer[c] # "stopped"

\* C13 witness: with repeat = -1 the consumers have pulled more items than
\* one pass over the dataset holds.
C13_Witness ==
    /\ repeat = -1
    /\ cleanup_calls = 0
    /\ Len(delivered) > dataset_len
    /\ \E c \in DOMAIN consumer : consumer[c] = "empty"

\* C14: over any sequence of activate() calls the first starts the producer
\* and every later one raises ValueError, starts no producer and leaves the
\* buffer and the flag as they were; at most one producer is ever started.
C14_SingleActivation ==
    [][/\ producers_started' <= 1
       /\ (~activated /\ activated') =>
             (producers_started' = 1 /\ activate_errors' = activate_errors)
       /\ activate_errors' # activate_errors =>
             /\ activated /\ activated'
             /\ producers_started' = producers_started
             /\ producer' = producer
             /\ queue' = queue
             /\ done_value' = done_value]_vars

\* C14 witness: two activate() calls have failed while the one producer had
\* items buffered.
C14_Witness ==
    /\ activate_errors >= 2
    /\ producers_started = 1
    /\ queue # <<>>

\* C15: cleanup() may be repeated.  After every cleanup() call, the first or
\* a later one, in any interleaving with the producer, mark_as_done() and
\* get(), the flag is set (done() is truthy), and every call returns with the
\* buffer drained.
C15_CleanupIdempotent ==
    [][/\ cleanup_calls' >= 1 => done_value' # 0
       /\ (cleaner.pc = "sleep" /\ cleaner'.pc = "idle") =>
             queue' = <<>>]_vars

\* C15 witness: a second cleanup() has returned, with items discarded and
\* mark_as_done() called after it had started.
C15_Witness ==
    /\ cleanup_calls = 2
    /\ cleaner.pc = "idle"
    /\ done_value = 1
    /\ discarded # <<>>

\* C16 as stated: after a cleanup() called with items buffered and the
\* producer between its flag check and its put has returned, the flag is
\* set, the buffer is empty and nothing is enqueued any more.
C16_ClosedAtReturn ==
    [][(cleanup_midput /\ cleaner.pc = "idle") =>
          /\ done_value # 0
          /\ queue = <<>>
          /\ enqueued' = enqueued]_vars

\* C16 amended: once the flag is set the producer enqueues at most the one
\* item it was about to put and then stops; when cleanup() has returned the
\* flag is set and the buffer holds at most that one item.
C16_AtMostInflight ==
    [][/\ done_value # 0 =>
             /\ enqueued' # enqueued =>
                   (producer.pc = "put" /\ producer'.pc # "put")
             /\ producer.pc # "put" => producer'.pc # "put"
       /\ (cleanup_calls >= 1 /\ cleaner.pc = "idle") =>
             (done_value # 0 /\ Len(queue) <= 1)]_vars

\* C16 witness: the cleanup() called in the middle of an enqueue has
\* discarded items and returned, and the item in flight is in the buffer.
C16_Witness ==
    /\ cleanup_midput
    /\ cleaner.pc = "idle"
    /\ discarded # <<>>
    /\ queue # <<>>
    /\ producer.pc = "returned"

\* C17: every entry a reset returns for a requested slot that was not reset
\* or whose worker answered the nan observation is the cached default, the
\* default is a genuine observation written once, by the first reset that
\* saw one, and never changed, and no entry returned is None.
C17_DefaultFill ==
    [][/\ default_obs # None => default_obs' = default_obs
       /\ (default_obs = None /\ default_obs' # None) =>
             default_obs' \in {call'.answers[i] : i \in call'.invoked} \ {NanObs}
       /\ (call' # call /\ call'.op = "reset" /\ call'.outcome = "returned") =>
             \A k \in DOMAIN call'.id :
                (\/ call'.id[k] \notin call'.invoked
                 \/ call'.answers[call'.id[k]] = NanObs) =>
                    /\ call'.ret.obs[k] = default_obs'
                    /\ call'.ret.obs[k] # None]_vars

\* C18 as stated: a reset calls on_env_reset for every slot that it retires.
C18_RetiredNotified ==
    (call.op = "reset" /\ call.outcome \in {"returned", "StopIteration"}) =>
        (retired \ call.retired_before) \subseteq call.logged

\* C18 amended: a reset calls on_env_reset for exactly the requested slots
\* that are alive after it, and for no slot that it retires.
C18_AliveNotified ==
    (call.op = "reset" /\ call.outcome \in {"returned", "StopIteration"}) =>
        /\ call.logged = Range(call.id) \cap alive_env_ids
        /\ call.logged \cap retired = {}

\* C18 witness: a reset retired one slot and reset another.
C18_Witness ==
    /\ call.op = "reset"
    /\ call.outcome = "returned"
    /\ retired # call.retired_before
    /\ call.logged # {}

\* C19 as stated: a step retires every alive slot whose worker answers the
\* nan observation and notifies the loggers, and the session is terminal
\* when that empties the alive set.
C19_StepRetiresSentinel ==
    (call.op = "step" /\ call.outcome = "returned") =>
        /\ \A i \in call.invoked :
              call.answers[i].obs = NanObs =>
                  (i \notin alive_env_ids /\ i \in call.logged)
        /\ alive_env_ids = {} => zombie

\* C19 amended: a step retires nothing.  The alive set and the terminal flag
\* are as before the call; on_env_step is called for every requested alive
\* slot, and a slot that answered the nan observation gets the cached default
\* observation in its position.
C19_StepRetiresNothing ==
    (call.op = "step" /\ call.outcome = "returned") =>
        /\ alive_env_ids = call.alive_before
        /\ retired = call.retired_before
        /\ ~zombie
        /\ call.logged = call.invoked
        /\ \A k \in DOMAIN call.id :
              (/\ call.id[k] \in call.invoked
               /\ call.answers[call.id[k]].obs = NanObs) =>
                  call.ret.obs[k] = default_obs

\* C19 witness: the only slot still alive answered a step with the nan
\* observation.
C19_Witness ==
    /\ call.op = "step"
    /\ call.outcome = "returned"
    /\ call.retired_before # {}
    /\ \E i \in call.invoked :
          /\ alive_env_ids = {i}
          /\ call.answers[i].obs = NanObs

\* C20 as stated: a reset or step that gets past the assertion warns exactly
\* when no collector_guard() scope is active.
C20_UnguardedFlagged ==
    (call # NoCall /\ call.outcome # "AssertionError") =>
        (call.warned <=> ~collector_guarded)

\* C20 amended: a reset that gets past the assertion warns exactly when no
\* collector_guard() scope is active and a step never warns; guarded or not,
\* the alive set after the call and the observations returned are the same
\* function of the alive set before, the ids and the workers' answers.
C20_ResetFlagged ==
    (call # NoCall /\ call.outcome # "AssertionError") =>
        LET alive0 == _reset_alive_envs(call.alive_before)
            obs == reset_obs(call.id, alive0, call.answers)
        IN  /\ call.warned <=> (call.op = "reset" /\ ~collector_guarded)
            /\ (call.op = "reset" /\ call.outcome # "WorkerError") =>
                  alive_env_ids = reset_alive(call.id, alive0, obs)
            /\ (call.op = "reset" /\ call.outcome = "returned") =>
                  call.ret.obs = fill_default(obs, default_obs)
            /\ call.op = "step" => alive_env_ids = call.alive_before

\* C20 witness: a reset outside any scope, after a scope had ended, warned,
\* retired a slot and returned.
C20_Witness ==
    /\ call.op = "reset"
    /\ call.outcome = "returned"
    /\ call.warned
    /\ guard_pc = "outside"
    /\ last_exit.kind # "none"
    /\ retired # call.retired_before

\* C21 as stated: once a collector_guard() scope has exited, the scope is
\* not entered again on the same object.
C21_SingleUse ==
    [][(scope_exited /\ guard_pc = "outside") => guard_pc' = "outside"]_vars

\* C21 amended: collector_guard() may be entered again after a scope has
\* exited.  Every entry marks the pass as guarded; inside the new scope a
\* reset or step is refused (AssertionError) exactly when the alive set had
\* been emptied before, and is carried out otherwise.
C21_ReentryAccepted ==
    /\ guard_pc = "body" => collector_guarded
    /\ (scope_exited /\ guard_pc = "body" /\ call # NoCall) =>
          (call.outcome = "AssertionError" <=> call.alive_before = {})

\* C21 witness: in a scope entered after another had exited, a reset
\* returned observations.
C21_Witness ==
    /\ scope_exited
    /\ guard_pc = "body"
    /\ call.op = "reset"
    /\ call.outcome = "returned"

\* C22: an error raised by a worker's reset or step, other than
\* StopIteration, leaves reset/step as it is, with the alive set, the retired
\* slots and the terminal flag as before the call, and leaves an enclosing
\* collector_guard() scope too.
C22_WorkerErrorPropagates ==
    /\ call.outcome = "WorkerError" =>
          /\ raised = "WorkerError"
          /\ alive_env_ids = call.alive_before
          /\ retired = call.retired_before
          /\ ~zombie
    /\ last_exit.kind \in {"WorkerError", "Error"} =>
          last_exit.propagated = last_exit.kind

\* C22 witness: a worker's error ended a scope in which a slot had retired.
C22_Witness ==
    /\ last_exit.kind = "WorkerError"
    /\ last_exit.propagated = "WorkerError"
    /\ retired # {}
    /\ ~zombie

\* C28: with a finite repeat, no cleanup() and no mark_as_done() from
\* outside, the flag is set only by the producer after its last put: whenever
\* it is set, all repeat * len(dataset) items have been enqueued and the
\* producer has returned.
C28_ClosedAfterLastPut ==
    (repeat # -1 /\ cleanup_calls = 0 /\ done_value # 0) =>
        /\ Len(enqueued) = repeat * dataset_len
        /\ producer.pc = "returned"

\* C28 witness: the flag is set after two passes over two items, some of
\* them still buffered.
C28_Witness ==
    /\ cleanup_calls = 0
    /\ done_value # 0
    /\ Len(enqueued) = 4
    /\ queue # <<>>

\* The model's cap on the passes of a producer with repeat = -1 holds the
\* producer in front of its put.
ProducerCapped == producer.pc = "put" /\ producer.rep >= MaxRepeat

\* The producer thread is not running.
ProducerTerminated == producer.pc \in {"unstarted", "returned"}

\* C29 as stated: after a cleanup() call the producer terminates, and it has
\* terminated when cleanup() returns.
C29_TerminatesWithinDrain ==
    /\ (cleanup_calls >= 1 /\ ~ProducerCapped) ~> ProducerTerminated
    /\ []((cleanup_calls >= 1 /\ cleaner.pc = "idle" /\ ~ProducerCapped)
             => ProducerTerminated)

\* C29 amended: after a cleanup() call the producer terminates, also when
\* its put() was waiting for room and no consumer runs, and cleanup() needs
\* at most a second drain cycle; cleanup() may return before the producer
\* has terminated.
C29_EventuallyTerminates ==
    /\ (cleanup_calls >= 1 /\ ~ProducerCapped) ~> ProducerTerminated
    /\ [](cleaner.repeat <= 1)

\* C29 witness: no get() has returned anything, cleanup() has discarded a
\* full buffer and the item whose put() had waited for room, and the producer
\* has returned before its last pass.
C29_Witness ==
    /\ delivered = <<>>
    /\ Len(discarded) = queue_maxsize + 1
    /\ queue = <<>>
    /\ producer.pc = "returned"
    /\ (repeat = -1 \/ Len(enqueued) < repeat * dataset_len)

\* C30: backpressure.  The buffer never holds more than queue_maxsize items,
\* and nothing is enqueued while it is full.
C30_Backpressure ==
    [][/\ Len(queue') <= queue_maxsize
       /\ Len(queue) >= queue_maxsize => enqueued' = enqueued]_vars

\* C30 witness: the producer is at its put with the buffer full, after a
\* get() had made room once.
C30_Witness ==
    /\ producer.pc = "put"
    /\ Len(queue) = queue_maxsize
    /\ delivered # <<>>

\* C25: eventual exhaustion.  Over a finite DataQueue, with episodes that
\* end and a driver that keeps stepping and resetting, the collect loop
\* reaches the reset that raises StopIteration with every slot retired.
C25_EventualExhaustion ==
    <>(/\ driver.pc = "finished"
       /\ raised = "StopIteration"
       /\ zombie
       /\ alive_env_ids = {})

\* C25 witness: the pass of two workers has ended by exhaustion after both
\* seeds, of two passes over one item, went to some worker.
C25_Witness ==
    /\ driver.pc = "finished"
    /\ raised = "StopIteration"
    /\ retired = 0..(env_num - 1)
    /\ env_num = 2
    /\ repeat = 2
    /\ Len(delivered) = 2

\* The number kind of a leaf: its dtype for numpy values, the dtype numpy
\* gives a python scalar otherwise.
LeafDtype(x) == np_array(x).dtype

IsNumericLeaf(x) ==
    /\ (has_dtype(x) \/ is_python_scalar(x))
    /\ LeafDtype(x) \in FloatDtypes \cup IntDtypes

Marker(dtype) == IF dtype \in FloatDtypes THEN "nan" ELSE iinfo_max(dtype)

RECURSIVE NumericTree(_), SameShape(_, _), HasGenuine(_)
\* A nesting of dicts, lists and tuples over float and bounded-integer
\* leaves.
NumericTree(x) ==
    IF x.kind \in Containers
    THEN \A k \in DOMAIN x.kids : NumericTree(x.kids[k])
    ELSE IsNumericLeaf(x)

\* y has the containers of x, with the same keys and lengths, and at every
\* leaf of x an array of the leaf's number kind, dimensions and length.
SameShape(x, y) ==
    IF x.kind \in Containers
    THEN /\ y.kind = x.kind
         /\ y.keys = x.keys
         /\ DOMAIN y.kids = DOMAIN x.kids
         /\ \A k \in DOMAIN x.kids : SameShape(x.kids[k], y.kids[k])
    ELSE /\ y.kind = "ndarray"
         /\ y.dtype = LeafDtype(x)
         /\ y.ndim = x.ndim
         /\ DOMAIN y.data = DOMAIN x.data

\* Some float or integer leaf of x holds an element that is not the marker.
HasGenuine(x) ==
    IF x.kind \in Containers
    THEN \E k \in DOMAIN x.kids : HasGenuine(x.kids[k])
    ELSE /\ IsNumericLeaf(x)
         /\ \E k \in DOMAIN x.data : x.data[k] # Marker(LeafDtype(x))

\* C23: round trip.  For a sample over float and bounded-integer leaves,
\* fill_invalid returns a value of the sample's shape, and isinvalid of that
\* value is true.
C23_RoundTrip ==
    (NumericTree(sample) /\ filled # NoTree) =>
        /\ filled # ValueError
        /\ SameShape(sample, filled)
        /\ verdict.of_filled \in {"unset", "True"}

\* C23 witness: a dict of two genuine leaves, one of them a python scalar,
\* has gone through fill_invalid and isinvalid.
C23_Witness ==
    /\ sample.kind = "dict"
    /\ Len(sample.kids) = 2
    /\ sample.kids[1].kind = "float"
    /\ sample.kids[2].kind = "int"
    /\ HasGenuine(sample.kids[1])
    /\ HasGenuine(sample.kids[2])
    /\ verdict.of_filled = "True"

\* C24: isinvalid is true only of values whose float and integer leaves all
\* hold the marker in every element, and it is false of every value over
\* float and integer leaves in which one element is a genuine number.
C24_TrueOnlyIfAllMarked ==
    /\ verdict.of_sample = "True" => ~HasGenuine(sample)
    /\ (verdict.of_sample # "unset" /\ NumericTree(sample)
           /\ HasGenuine(sample)) => verdict.of_sample = "False"

\* C24 witness: isinvalid was false of a list whose leaves are a marker and
\* a genuine number.
C24_Witness ==
    /\ verdict.of_sample = "False"
    /\ sample.kind = "list"
    /\ Len(sample.kids) = 2
    /\ sample.kids[1].data = <<"nan">>
    /\ sample.kids[2].data = <<"5">>

\* C26 as stated: outside the final step and with no volume cap, a step whose
\* amount is greater than the remaining position fails with ValueError, and
\* so does a step with a negative execution volume.
C26_OverdrawRejected ==
    (sim_step.outcome \in {"returned", "ValueError"}) =>
        /\ (~sim_step.final /\ ~sim_step.capped
              /\ sim_step.amount > sim_step.position_before)
               => sim_step.outcome = "ValueError"
        /\ (\E k \in DOMAIN sim_step.exec_vol : sim_step.exec_vol[k] < 0)
               => sim_step.outcome = "ValueError"

\* C26 amended: outside the final step and with no volume cap, a step whose
\* amount exceeds the remaining position by more than EPS fails with
\* ValueError, and so does any step one of whose execution volumes is below
\* -EPS; a step that returns leaves a position of at least -EPS.
C26_OverdrawBeyondEpsRejected ==
    (sim_step.outcome \in {"returned", "ValueError"}) =>
        /\ (~sim_step.final /\ ~sim_step.capped
              /\ sim_step.amount > sim_step.position_before + EPS)
               => sim_step.outcome = "ValueError"
        /\ (\E k \in DOMAIN sim_step.exec_vol : sim_step.exec_vol[k] < -EPS)
               => sim_step.outcome = "ValueError"
        /\ sim_step.outcome = "returned" => simulator.position >= -EPS

\* C26 witness: the first step of an order, over two ticks and not the last
\* one, asked for more than the order's amount and failed.
C26_Witness ==
    /\ sim_step.outcome = "ValueError"
    /\ ~sim_step.final
    /\ ~sim_step.capped
    /\ ~sim_step.done_before
    /\ Len(sim_step.exec_vol) = 2
    /\ sim_step.position_before = simulator.amount
    /\ sim_step.amount > simulator.amount + EPS

\* C27: a step on a simulator that is done fails with AssertionError.
C27_DoneStepAsserts ==
    (sim_step.outcome # "none" /\ sim_step.done_before) =>
        sim_step.outcome = "AssertionError"

\* The k-th item the producer iterates: the source in order, pass after pass.
IterationItem(k) == <<(k - 1) \div dataset_len, (k - 1) % dataset_len>>

\* C31 as stated: the items returned by get(), in the order of the dequeues,
\* are a prefix of the sequence the producer enqueued.
C31_DeliveredIsPrefix ==
    /\ Len(delivered) <= Len(enqueued)
    /\ delivered = SubSeq(enqueued, 1, Len(delivered))

\* C31 amended: the producer enqueues the source in iteration order, pass
\* after pass; every get() returns the oldest buffered item; and as long as
\* cleanup() has discarded nothing the delivered items followed by the
\* buffered ones are the enqueued sequence.
C31_FifoDelivery ==
    [][/\ enqueued' # enqueued =>
             enqueued' = Append(enqueued, IterationItem(Len(enqueued) + 1))
       /\ delivered' # delivered =>
             /\ queue # <<>>
             /\ delivered' = Append(delivered, Head(queue))
             /\ queue' = Tail(queue)
       /\ discarded' = <<>> => enqueued' = delivered' \o queue']_vars

\* C31 witness: three items of two passes have been delivered, nothing was
\* discarded and an item is still buffered.
C31_Witness ==
    /\ Len(delivered) = 3
    /\ delivered[3][1] = 1
    /\ discarded = <<>>
    /\ queue # <<>>

\* C32: cleanup() warns only at the start of a cycle that follows a sleep
\* after which the queue was not empty, and it returns after at most
\* CleanupRetries cycles, with whatever is left in the queue.
C32_WarnsOnlyOnLeftover ==
    [][/\ cleaner'.warnings > cleaner.warnings =>
             /\ cleaner.pc = "sleep"
             /\ queue # <<>>
             /\ cleaner'.warnings = cleaner.warnings + 1
       /\ cleaner'.repeat < CleanupRetries
       /\ (cleaner' # cleaner /\ cleaner.pc = "sleep"
             /\ cleaner.repeat = CleanupRetries - 1) => cleaner'.pc = "idle"]_vars

\* C32 witness: a cleanup() call has returned after all its cycles, having
\* warned in every cycle but the first, and an item is left in the queue.
C32_Witness ==
    /\ cleanup_calls = 1
    /\ cleaner.pc = "idle"
    /\ cleaner.warnings = CleanupRetries - 1
    /\ queue # <<>>

\* C33: after a reset(id) that asked its workers, a requested slot that was
\* alive is retired exactly if its worker answered the nan observation or
\* None, and the alive status of every other slot is what it was.
C33_RetiredIffSentinel ==
    (call.op = "reset" /\ call.outcome \in {"returned", "StopIteration"}) =>
        \A i \in EnvIds :
            IF i \in Range(call.id) /\ i \in call.alive_before
            THEN i \notin alive_env_ids <=> call.answers[i] \in {NanObs, None}
            ELSE i \in alive_env_ids <=> i \in call.alive_before

\* C33 witness: a reset of two alive slots in which one worker answered the
\* nan observation and the other a genuine one.
C33_Witness ==
    /\ call.op = "reset"
    /\ call.outcome = "returned"
    /\ call.alive_before = {0, 1}
    /\ Len(call.id) = 2
    /\ call.answers[0] = NanObs
    /\ call.answers[1] \in Obs
    /\ alive_env_ids = {1}

C35_EveryQueueCleaned ==
    trainer.pc \in {"returned", "raised"}
        => trainer.cleaned = created_queues(trainer)

\* C36: once cleanup() has set the flag, the only item the producer still
\* enqueues is the one it had already checked the flag for; every later
\* flag check returns, so it puts nothing more and runs no further pass.
C36_AtMostOneAfterClose ==
    [][cleanup_calls >= 1 =>
          /\ enqueued' # enqueued =>
                /\ producer.pc = "put"
                /\ producer'.pc \in {"check", "mark"}
                /\ enqueued' = Append(enqueued, <<producer.rep, producer.idx>>)
          /\ producer.pc \in {"check", "mark", "returned"} =>
                /\ producer'.pc \in {producer.pc, "returned"}
                /\ producer'.rep = producer.rep
                /\ producer'.idx = producer.idx]_vars

\* C36 witness: the one cleanup() found nothing to discard and returned;
\* the last item of the first pass, checked before the close, was put
\* afterwards, and the producer returned at the first check of the next
\* pass.
C36_Witness ==
    /\ cleanup_calls = 1
    /\ cleaner.pc = "idle"
    /\ discarded = <<>>
    /\ repeat # 1
    /\ queue = << <<0, dataset_len - 1>> >>
    /\ producer = [pc |-> "returned", rep |-> 1, idx |-> 0]

\* C37: a flag that is truthy stays truthy over every step of cleanup(),
\* mark_as_done(), the producer and the consumers.
C37_FlagMonotonic ==
    [][done_value # 0 => done_value' # 0]_vars

\* C37 witness: two cleanup() calls had raised the counter to 2 and a
\* mark_as_done() from outside (the producer was never started) has
\* overwritten it with 1.
C37_Witness ==
    /\ cleanup_calls = 2
    /\ ~activated
    /\ done_value = 1

\* C38: between calls the env is a zombie exactly when no slot is alive, and
\* every reset or step call that got past the assertion found a slot alive.
C38_ZombieIffNoneAlive ==
    /\ zombie <=> alive_env_ids = {}
    /\ (call.op # "none" /\ call.outcome # "AssertionError")
          => call.alive_before # {}

\* C38 witness: the last slot has retired, and a call made afterwards was
\* refused by the assertion.
C38_Witness ==
    /\ zombie
    /\ alive_env_ids = {}
    /\ retired = EnvIds
    /\ call.op = "step"
    /\ call.outcome = "AssertionError"

\* C39: in every step call that returns, each requested slot that is
\* retired gets done = False with the cached default observation, reward
\* and info, and no worker is invoked for it.
C39_RetiredStepEntry ==
    (call.op = "step" /\ call.outcome = "returned") =>
        \A k \in DOMAIN call.id :
            call.id[k] \notin call.alive_before =>
                /\ call.ret.done[k] = FALSE
                /\ call.ret.obs[k] = default_obs
                /\ call.ret.rew[k] = default_rew
                /\ call.ret.info[k] = default_info
                /\ call.id[k] \notin call.invoked

\* C39 witness: a step over a retired slot and an alive one whose episode
\* ends in this step; the retired entry carries a cached reward.
C39_Witness ==
    /\ call.op = "step"
    /\ call.outcome = "returned"
    /\ \E k, j \in DOMAIN call.id :
          /\ call.id[k] \notin call.alive_before
          /\ call.id[j] \in call.alive_before
          /\ call.ret.done[j] = TRUE
          /\ call.ret.done[k] = FALSE
          /\ call.ret.rew[k] # None
          /\ call.invoked = {call.id[j]}

\* C40: validate() / test() return the collector's result exactly when
\* collect() returned; when the pass ended with StopIteration the guard
\* has suppressed it, every logger has had its on_env_all_done() and the
\* method returns None.
C40_ResultOnlyOnReturn ==
    last_exit.kind # "none" =>
        /\ last_exit.returns = "collect_result" <=> last_exit.kind = "return"
        /\ last_exit.kind = "StopIteration" =>
              /\ last_exit.returns = None
              /\ last_exit.propagated = "none"
              /\ \A l \in Loggers : all_done_calls[l] = 1

\* C40 witness: every slot has retired, the reset that retired the last one
\* raised StopIteration inside the scope, and the method returned None.
C40_Witness ==
    /\ guard_pc = "outside"
    /\ zombie
    /\ exhausted
    /\ last_exit.kind = "StopIteration"
    /\ last_exit.returns = None
    /\ \A l \in Loggers : all_done_calls[l] = 1

====
